---- MODULE Spec2Model ----
(***************************************************************************)
(* Model of the AutoPrompt trigger search (autoprompt/create_trigger.py).  *)
(*                                                                         *)
(* The language model and the tokenizer are opaque collaborators: a        *)
(* forward pass is a nondeterministic choice of scores, the tokenizer is a *)
(* small fixed vocabulary.  Scores and gradients are integers; -inf is the *)
(* integer NegInf, which lies below every score the model can produce, and *)
(* 1e32 is the integer Huge, which lies above every dot product.           *)
(***************************************************************************)
EXTENDS Integers, Sequences, FiniteSets, TLC

VARIABLES
    pc,                 \* position in run_model
    args,               \* parsed command line
    template,           \* local `template` of run_model
    num_trigger_tokens, \* templatizer.num_trigger_tokens
    trigger_ids,        \* row 0 of the tensor trigger_ids
    best_trigger_ids,   \* row 0 of the tensor best_trigger_ids
    filter,             \* the filter tensor, one value per vocabulary id
    best_dev_metric,
    iter,               \* loop variable of `for i in range(args.iters)`
    averaged_grad,      \* averaged_grad, one row per trigger position
    token_to_flip,
    candidates,         \* result of hotflip_attack in the search loop
    current_score,
    candidate_scores,
    result_file,        \* the files written with print_lama: name -> lines
    hotflip,            \* a call of hotflip_attack
    replace,            \* a call of replace_trigger_tokens
    predict,            \* a call of PredictWrapper.__call__
    accuracy,           \* a call of AccuracyFn.__call__
    embedding_gradient, \* the GradientStorage and the accumulation loop reading it
    batch               \* a call of make_batch

\* The state of run_model, and the calls checked on their own.
runVars == << pc, args, template, num_trigger_tokens, trigger_ids,
              best_trigger_ids, filter, best_dev_metric, iter,
              averaged_grad, token_to_flip, candidates, current_score,
              candidate_scores, result_file >>

callVars == << hotflip, replace, predict, accuracy, embedding_gradient, batch >>

vars == << runVars, callVars >>

----------------------------------------------------------------------------
(* Bounds of the model.                                                    *)

MaxIters == 1
MaxTriggerTokens == 2
MaxCand == 2
MaxGrad == 1
MaxScore == 1
MaxBatch == 2
MaxSeqLen == 3
MaxMass == 2

\* Iterations and accumulation steps of the accumulation loop, and hook
\* invocations during one backward pass, when the loop is checked on its own.
MaxGradIters == 2
MaxSteps == 2
MaxHookCalls == 2

(* float('-inf') and 1e32.                                                 *)
NegInf == -1
Huge == 1000

None == "None"

----------------------------------------------------------------------------
(* Small helpers.                                                          *)

Range(s) == { s[k] : k \in DOMAIN s }

RECURSIVE SumSeq(_)
SumSeq(s) == IF s = << >> THEN 0 ELSE Head(s) + SumSeq(Tail(s))

RECURSIVE Repeat(_, _)
\* Python's  str * n
Repeat(str, n) == IF n <= 0 THEN "" ELSE str \o Repeat(str, n - 1)

----------------------------------------------------------------------------
(* The tokenizer: a five-token vocabulary per tokenizer family.  `word` is  *)
(* the key of tokenizer.get_vocab(), `decoded` is tokenizer.decode([idx]), *)
(* both as sequences of characters.                                        *)

UpperCase == { "A", "B", "C", "D", "E", "F", "G", "H", "I", "J", "K", "L", "M",
               "N", "O", "P", "Q", "R", "S", "T", "U", "V", "W", "X", "Y", "Z" }

BPE_TOKENIZERS ==
    { "facebook/bart-base", "facebook/bart-large",
      "roberta-large", "roberta-base",
      "gpt2", "gpt2-medium", "gpt2-large", "gpt2-xl",
      "facebook/opt-350m", "facebook/opt-1.3b", "facebook/opt-6.7b",
      "facebook/opt-iml-max-1.3b" }

BertVocab ==
    << [word |-> << "[", "M", "A", "S", "K", "]" >>, decoded |-> << "[", "M", "A", "S", "K", "]" >>, special |-> TRUE],
       [word |-> << "t", "h", "e" >>,                decoded |-> << "t", "h", "e" >>,                special |-> FALSE],
       [word |-> << "P", "a", "r", "i", "s" >>,      decoded |-> << "P", "a", "r", "i", "s" >>,      special |-> FALSE],
       [word |-> << "A" >>,                          decoded |-> << "A" >>,                          special |-> FALSE],
       [word |-> << "y", "e", "s" >>,                decoded |-> << "y", "e", "s" >>,                special |-> FALSE] >>

RobertaVocab ==
    << [word |-> << "<", "m", "a", "s", "k", ">" >>, decoded |-> << "<", "m", "a", "s", "k", ">" >>, special |-> TRUE],
       [word |-> << "G", "t", "h", "e" >>,           decoded |-> << " ", "t", "h", "e" >>,           special |-> FALSE],
       [word |-> << "G", "P", "a", "r", "i", "s" >>, decoded |-> << " ", "P", "a", "r", "i", "s" >>, special |-> FALSE],
       [word |-> << "P", "a", "r", "i", "s" >>,      decoded |-> << "P", "a", "r", "i", "s" >>,      special |-> FALSE],
       [word |-> << "G", "y", "e", "s" >>,           decoded |-> << " ", "y", "e", "s" >>,           special |-> FALSE] >>

\* tokenizer.get_vocab(): ids count from 0, the tuples above from 1.
get_vocab(name_or_path) ==
    IF name_or_path \in BPE_TOKENIZERS THEN RobertaVocab ELSE BertVocab

\* config.vocab_size and tokenizer.vocab_size
vocab_size(name_or_path) == Len(get_vocab(name_or_path))

VocabIds(name_or_path) == 0 .. (vocab_size(name_or_path) - 1)

decode(idx, name_or_path) == get_vocab(name_or_path)[idx + 1].decoded

all_special_ids(name_or_path) ==
    { idx \in VocabIds(name_or_path) : get_vocab(name_or_path)[idx + 1].special }

\* tokenizer.mask_token_id: the id of the token the vocabulary marks as mask
mask_token_id(name_or_path) ==
    CHOOSE idx \in VocabIds(name_or_path) :
        get_vocab(name_or_path)[idx + 1].word \in
            { << "[", "M", "A", "S", "K", "]" >>, << "<", "m", "a", "s", "k", ">" >> }

\* tokenizer.convert_tokens_to_ids on a list of words
convert_tokens_to_ids(tokens, name_or_path) ==
    [ k \in DOMAIN tokens |->
        CHOOSE idx \in VocabIds(name_or_path) :
            get_vocab(name_or_path)[idx + 1].word = tokens[k] ]

\* tokenizer.convert_ids_to_tokens
convert_ids_to_tokens(ids, name_or_path) ==
    [ k \in DOMAIN ids |-> get_vocab(name_or_path)[ids[k] + 1].word ]

\* The ids of the gold objects: the label map's tokens, or the labels of the
\* train dataset, here the same one-token label.
LabelWord(name_or_path) ==
    IF name_or_path \in BPE_TOKENIZERS THEN << "G", "y", "e", "s" >>
                                       ELSE << "y", "e", "s" >>

label_ids(name_or_path) ==
    Range(convert_tokens_to_ids(<< LabelWord(name_or_path) >>, name_or_path))

----------------------------------------------------------------------------
(* The embedding table embeddings.weight: one row per vocabulary id.       *)

EmbeddingWeight == << << -1 >>, << 0 >>, << -2 >>, << 2 >>, << 1 >> >>

GradValues == (0 - MaxGrad) .. MaxGrad

\* The values a gradient can take against the rows of embedding_matrix.
GradRows(embedding_matrix) == [ 1 .. Len(embedding_matrix[1]) -> GradValues ]

\* A filter of None.
NoFilter == << >>

----------------------------------------------------------------------------
(* hotflip_attack                                                          *)

\* torch.matmul(embedding_matrix, averaged_grad)
matmul(embedding_matrix, grad) ==
    [ v \in DOMAIN embedding_matrix |->
        SumSeq([ d \in DOMAIN grad |-> embedding_matrix[v][d] * grad[d] ]) ]

\* if filter is not None: gradient_dot_embedding_matrix -= filter
SubtractFilter(dots, flt) ==
    IF flt = NoFilter THEN dots
    ELSE [ v \in DOMAIN dots |-> dots[v] - flt[v] ]

\* A sign handling that forgets the negation.
NeverNegate(dots, increase_loss) == dots

\* if not increase_loss: gradient_dot_embedding_matrix *= -1
NegateUnlessIncrease(dots, increase_loss) ==
    IF ~increase_loss THEN [ v \in DOMAIN dots |-> 0 - dots[v] ] ELSE dots

\* Tensor.topk(k): the indices of k largest entries, largest first.  Which of
\* several equal entries comes first is not specified, so topk is the set of
\* the results it can give.  Indices count from 1 here.
topk(values, k) ==
    { s \in [ 1 .. k -> DOMAIN values ] :
        /\ \A a, b \in 1 .. k : a < b => s[a] # s[b] /\ values[s[a]] >= values[s[b]]
        /\ \A v \in DOMAIN values :
              v \notin Range(s) => \A a \in 1 .. k : values[s[a]] >= values[v] }

\* The top_k_ids hotflip_attack can return, as vocabulary ids (from 0).
hotflip_attack(grad, embedding_matrix, increase_loss, num_candidates, flt) ==
    LET scores == NegateUnlessIncrease(
                      SubtractFilter(matmul(embedding_matrix, grad), flt),
                      increase_loss)
    IN  { [ k \in DOMAIN s |-> s[k] - 1 ] : s \in topk(scores, num_candidates) }

----------------------------------------------------------------------------
(* isupper and the filter of run_model                                     *)

isupper(idx, name_or_path) ==
    LET decoded == decode(idx, name_or_path)
    IN  IF name_or_path \in BPE_TOKENIZERS
        THEN decoded[1] = " " /\ decoded[2] \in UpperCase
        ELSE decoded[1] \in UpperCase

\* The vocabulary loop skips a word with `continue`:
SkippedWord(idx, name_or_path) ==
    \/ Len(get_vocab(name_or_path)[idx + 1].word) = 1
    \/ idx >= vocab_size(name_or_path)

\* The filter tensor after lines 352-374.  Entry v is the value of id v - 1.
BuildFilter(a) ==
    LET name == a.model_name
        afterLabels ==
            [ v \in 1 .. vocab_size(name) |->
                IF (v - 1) \in label_ids(name) THEN 0 - Huge ELSE 0 ]
    IN  IF ~a.filter THEN [ v \in 1 .. vocab_size(name) |-> 0 ]
        ELSE [ v \in 1 .. vocab_size(name) |->
                 IF SkippedWord(v - 1, name) THEN afterLabels[v]
                 ELSE IF (v - 1) \in all_special_ids(name) \/ isupper(v - 1, name)
                      THEN 0 - Huge
                      ELSE afterLabels[v] ]

----------------------------------------------------------------------------
(* run_model: the command line                                             *)

\* The model names of LM_TYPE that contain 'bert'.
HasBert(model_name) ==
    model_name \in { "roberta-base", "roberta-large", "distilroberta-base",
                     "bert-base-cased", "bert-large-cased", "distilbert-base-cased" }

TheWord(model_name) ==
    IF model_name \in BPE_TOKENIZERS THEN << "G", "t", "h", "e" >> ELSE << "t", "h", "e" >>

\* --initial-trigger: absent (the empty list stands for None) or a list of
\* one to MaxTriggerTokens words.
InitialTriggers(model_name) ==
    { << >> } \cup { [ k \in 1 .. m |-> TheWord(model_name) ] : m \in 1 .. MaxTriggerTokens }

\* --template: the empty string, absent (argparse gives None), or a template.
Templates == { "", None, "{sub_label} [T] [T] [P]." }

ModelNames == { "bert-base-cased", "roberta-base" }

AllArgs ==
    { a \in [ template : Templates,
              num_trigger_tokens : 1 .. MaxTriggerTokens,
              initial_trigger : UNION { InitialTriggers(m) : m \in ModelNames },
              filter : BOOLEAN,
              print_lama : BOOLEAN,
              iters : 0 .. MaxIters,
              num_cand : 1 .. MaxCand,
              fast_tokenizer : 0 .. 1,
              model_name : ModelNames,
              output : { "out" },
              seed : { 0 } ] :
        a.initial_trigger \in InitialTriggers(a.model_name) }

\* The command lines explored.  The search loop (iters > 0) is explored for
\* bert-base-cased with the slow tokenizer and MaxCand candidates; every
\* other option varies freely.
ArgsSet ==
    { a \in AllArgs :
        a.iters > 0 =>
            /\ a.model_name = "bert-base-cased"
            /\ a.fast_tokenizer = 0
            /\ a.num_cand = MaxCand
            /\ a.num_trigger_tokens = MaxTriggerTokens }

Scores == 0 .. MaxScore

----------------------------------------------------------------------------
(* run_model: the steps                                                    *)

\* Lines 289-294: the default template.
DefaultTemplate(a) ==
    LET trigger_str == IF a.fast_tokenizer # 0 THEN " [T]" ELSE " [T] "
        body == "{sub_label}" \o Repeat(trigger_str, a.num_trigger_tokens) \o " [P]."
    IN  IF HasBert(a.model_name) THEN "[CLS]" \o body \o "[SEP]" ELSE body

\* Lines 288-299.  The else branch compares (template == args.template)
\* instead of assigning: it reads the local `template` before any
\* assignment, which raises UnboundLocalError.
ConstructTemplate ==
    /\ pc = "construct_template"
    /\ IF args.template = ""
       THEN /\ template' = DefaultTemplate(args)
            /\ pc' = "templatizer"
       ELSE /\ template' = template
            /\ pc' = "error"
    /\ UNCHANGED callVars
    /\ UNCHANGED << args, num_trigger_tokens, trigger_ids, best_trigger_ids,
                    filter, best_dev_metric, iter, averaged_grad,
                    token_to_flip, candidates, current_score,
                    candidate_scores, result_file >>

\* Lines 301-312.  templatizer.num_trigger_tokens is what
\* utils.TriggerTemplatizer counts in the template; the assert lets
\* run_model go on only when it equals args.num_trigger_tokens.
BuildTemplatizer ==
    /\ pc = "templatizer"
    /\ \E n \in 1 .. MaxTriggerTokens :
          /\ num_trigger_tokens' = n
          /\ pc' = IF args.num_trigger_tokens = n THEN "init_trigger" ELSE "error"
    /\ UNCHANGED callVars
    /\ UNCHANGED << args, template, trigger_ids, best_trigger_ids, filter,
                    best_dev_metric, iter, averaged_grad,
                    token_to_flip, candidates, current_score,
                    candidate_scores, result_file >>

\* Lines 315-323.
InitTrigger ==
    /\ pc = "init_trigger"
    /\ IF args.initial_trigger # << >>
       THEN LET ids == convert_tokens_to_ids(args.initial_trigger, args.model_name)
            IN  IF Len(ids) = num_trigger_tokens
                THEN /\ trigger_ids' = ids
                     /\ best_trigger_ids' = ids
                     /\ pc' = "make_filter"
                ELSE /\ UNCHANGED << trigger_ids, best_trigger_ids >>
                     /\ pc' = "error"
       ELSE /\ trigger_ids' = [ k \in 1 .. num_trigger_tokens |->
                                  mask_token_id(args.model_name) ]
            /\ best_trigger_ids' = trigger_ids'
            /\ pc' = "make_filter"
    /\ UNCHANGED callVars
    /\ UNCHANGED << args, template, num_trigger_tokens, filter,
                    best_dev_metric, iter, averaged_grad, token_to_flip,
                    candidates, current_score, candidate_scores, result_file >>

\* Lines 348-374.
MakeFilter ==
    /\ pc = "make_filter"
    /\ filter' = BuildFilter(args)
    /\ pc' = "initial_eval"
    /\ UNCHANGED callVars
    /\ UNCHANGED << args, template, num_trigger_tokens, trigger_ids,
                    best_trigger_ids, best_dev_metric, iter,
                    averaged_grad, token_to_flip, candidates, current_score,
                    candidate_scores, result_file >>

\* Lines 376-391: the dev metric of the initial trigger is only logged;
\* best_dev_metric starts at -inf.
InitialEvaluate ==
    /\ pc = "initial_eval"
    /\ best_dev_metric' = NegInf
    /\ pc' = "loop_head"
    /\ UNCHANGED callVars
    /\ UNCHANGED << args, template, num_trigger_tokens, trigger_ids,
                    best_trigger_ids, filter, iter, averaged_grad,
                    token_to_flip, candidates, current_score,
                    candidate_scores, result_file >>

\* Line 393: for i in range(args.iters).
LoopHead ==
    /\ pc = "loop_head"
    /\ pc' = IF iter < args.iters THEN "accumulate" ELSE "finish"
    /\ UNCHANGED callVars
    /\ UNCHANGED << args, template, num_trigger_tokens, trigger_ids,
                    best_trigger_ids, filter, best_dev_metric,
                    iter, averaged_grad, token_to_flip, candidates,
                    current_score, candidate_scores, result_file >>

\* Lines 397-431: the gradient of the loss at the trigger positions is
\* whatever the language model gives.
AccumulateGradient ==
    /\ pc = "accumulate"
    /\ \E g \in [ 1 .. num_trigger_tokens -> GradRows(EmbeddingWeight) ] : averaged_grad' = g
    /\ pc' = "select"
    /\ UNCHANGED callVars
    /\ UNCHANGED << args, template, num_trigger_tokens, trigger_ids,
                    best_trigger_ids, filter, best_dev_metric,
                    iter, token_to_flip, candidates, current_score,
                    candidate_scores, result_file >>

\* Lines 437-442.  averaged_grad is not read again before line 402 resets
\* it, so the model drops it here.
SelectCandidates ==
    /\ pc = "select"
    /\ \E t \in 0 .. (num_trigger_tokens - 1) :
          /\ token_to_flip' = t
          /\ \E c \in hotflip_attack(averaged_grad[t + 1], EmbeddingWeight,
                                     FALSE, args.num_cand, filter) :
                candidates' = c
    /\ averaged_grad' = << >>
    /\ pc' = "evaluate"
    /\ UNCHANGED callVars
    /\ UNCHANGED << args, template, num_trigger_tokens, trigger_ids,
                    best_trigger_ids, filter, best_dev_metric,
                    iter, current_score, candidate_scores, result_file >>

\* Lines 444-481: the accumulated scores are whatever the language model
\* gives, the same batches scoring the current trigger and every candidate:
\* a candidate equal to the token it would replace scores what the current
\* trigger scores.
EvaluateCandidates ==
    /\ pc = "evaluate"
    /\ \E cur \in Scores, cs \in [ 1 .. args.num_cand -> Scores ] :
          /\ \A j \in 1 .. args.num_cand :
                candidates[j] = trigger_ids[token_to_flip + 1] => cs[j] = cur
          /\ current_score' = cur
          /\ candidate_scores' = cs
    /\ pc' = "update"
    /\ UNCHANGED callVars
    /\ UNCHANGED << args, template, num_trigger_tokens, trigger_ids,
                    best_trigger_ids, filter, best_dev_metric,
                    iter, averaged_grad, token_to_flip, candidates,
                    result_file >>

\* trigger_ids.eq(tokenizer.mask_token_id).any()
HasMask(ids, model_name) == \E k \in DOMAIN ids : ids[k] = mask_token_id(model_name)

\* A comparison that also accepts a candidate scoring the same.
ImprovedOrEqual(scores, current) == \E j \in DOMAIN scores : scores[j] >= current

\* (candidate_scores > current_score).any()
Improved(scores, current) == \E j \in DOMAIN scores : scores[j] > current

\* candidate_scores.argmax(): the first index of a maximal score
ArgMax(scores) ==
    CHOOSE j \in DOMAIN scores :
        /\ \A k \in DOMAIN scores : scores[k] <= scores[j]
        /\ \A k \in DOMAIN scores : k < j => scores[k] < scores[j]

\* An assignment that broadcasts the candidate over the whole row.
FlipEveryToken(ids, position, candidate) == [ k \in DOMAIN ids |-> candidate ]

\* trigger_ids[:, token_to_flip] = candidate
FlipToken(ids, position, candidate) == [ ids EXCEPT ![position + 1] = candidate ]

\* Lines 486-488.
ScoreToBeat(a, ids, current) ==
    IF a.print_lama /\ HasMask(ids, a.model_name) THEN NegInf ELSE current

\* Lines 483-498.  On `continue` the locals of the iteration are dead: the
\* next iteration assigns each before reading it.
UpdateTrigger ==
    /\ pc = "update"
    /\ IF Improved(candidate_scores, ScoreToBeat(args, trigger_ids, current_score))
       THEN /\ trigger_ids' = FlipToken(trigger_ids, token_to_flip,
                                        candidates[ArgMax(candidate_scores)])
            /\ pc' = "dev_eval"
            /\ UNCHANGED << iter >>
       ELSE /\ UNCHANGED << trigger_ids >>
            /\ iter' = iter + 1
            /\ pc' = "loop_head"
    /\ current_score' = 0
    /\ candidate_scores' = << >>
    /\ candidates' = << >>
    /\ UNCHANGED callVars
    /\ UNCHANGED << args, template, num_trigger_tokens, best_trigger_ids,
                    filter, best_dev_metric, averaged_grad,
                    token_to_flip, result_file >>

\* Lines 518-520.
MetricToBeat(a, best_ids, best_metric) ==
    IF a.print_lama /\ HasMask(best_ids, a.model_name) THEN NegInf ELSE best_metric

\* Lines 500-525: dev_metric, the metric of the new trigger on the dev set,
\* is whatever the language model gives.
EvaluateDev ==
    /\ pc = "dev_eval"
    /\ \E dev_metric \in Scores :
          /\ IF dev_metric > MetricToBeat(args, best_trigger_ids, best_dev_metric)
             THEN /\ best_trigger_ids' = trigger_ids
                  /\ best_dev_metric' = dev_metric
             ELSE /\ UNCHANGED best_trigger_ids
                  /\ best_dev_metric' =
                        MetricToBeat(args, best_trigger_ids, best_dev_metric)
    /\ iter' = iter + 1
    /\ pc' = "loop_head"
    /\ UNCHANGED callVars
    /\ UNCHANGED << args, template, num_trigger_tokens, trigger_ids, filter,
                    averaged_grad, token_to_flip, candidates, current_score,
                    candidate_scores, result_file >>

\* args.train.parent.stem: the relation the train file belongs to.
train_relation == "P17"

\* Lines 531-561: the template text.  The templatizer puts the subject
\* placeholder, the trigger positions and the label position in the order
\* of the default template of lines 289-294; the text is the decoded tokens,
\* as characters.
RECURSIVE DecodeAll(_, _)
DecodeAll(ids, name_or_path) ==
    IF ids = << >> THEN << >>
    ELSE << " " >> \o decode(Head(ids), name_or_path)
            \o DecodeAll(Tail(ids), name_or_path)

LamaTemplate(a, ids) ==
    << "[", "X", "]" >> \o DecodeAll(ids, a.model_name) \o << " ", "[", "Y", "]", "." >>

\* Lines 527 and 562-567: the dict that json.dumps turns into the line.
LamaOut(a, ids) ==
    [ relation |-> train_relation,
      template |-> LamaTemplate(a, ids),
      tokens |-> convert_ids_to_tokens(ids, a.model_name) ]

\* Line 569: args.model_name.split("/")[1] if "/" in args.model_name
name_suffix(model_name) ==
    CASE model_name = "allenai/longformer-base-4096" -> "longformer-base-4096"
      [] model_name = "allenai/longformer-large-4096" -> "longformer-large-4096"
      [] model_name = "facebook/bart-base" -> "bart-base"
      [] model_name = "facebook/bart-large" -> "bart-large"
      [] model_name = "google/t5-v1_1-base" -> "t5-v1_1-base"
      [] model_name = "facebook/opt-350m" -> "opt-350m"
      [] model_name = "facebook/opt-1.3b" -> "opt-1.3b"
      [] model_name = "facebook/opt-6.7b" -> "opt-6.7b"
      [] OTHER -> model_name

\* Line 571
result_file_name(a) ==
    a.output \o "/" \o name_suffix(a.model_name) \o "_autoprompt_seed_"
       \o ToString(a.seed) \o ".jsonl"

\* open(name, "w"): the file is emptied.
open_truncate(files, name) == << >>

\* Line 572, open(name, "a"): the lines the file has, none if it is new.
open_append(files, name) ==
    IF name \in DOMAIN files THEN files[name] ELSE << >>

\* Lines 572-574: one line is written at the end of the file.
write_line(files, name, line) ==
    [ n \in (DOMAIN files) \cup { name } |->
        IF n = name THEN Append(open_append(files, name), line) ELSE files[n] ]

\* Lines 527-574: with print_lama the line is appended to the output file.
Finish ==
    /\ pc = "finish"
    /\ result_file' =
          IF args.print_lama
          THEN write_line(result_file, result_file_name(args),
                          LamaOut(args, best_trigger_ids))
          ELSE result_file
    /\ pc' = "done"
    /\ UNCHANGED callVars
    /\ UNCHANGED << args, template, num_trigger_tokens, trigger_ids,
                    best_trigger_ids, filter, best_dev_metric,
                    iter, averaged_grad, token_to_flip, candidates,
                    current_score, candidate_scores >>

\* No call in progress.
Idle == [ pc |-> "idle" ]

CallsIdle ==
    /\ hotflip = Idle
    /\ replace = Idle
    /\ predict = Idle
    /\ accuracy = Idle
    /\ embedding_gradient = Idle
    /\ batch = Idle

Init ==
    /\ CallsIdle
    /\ pc = "construct_template"
    /\ args \in ArgsSet
    /\ template = None
    /\ num_trigger_tokens = 0
    /\ trigger_ids = << >>
    /\ best_trigger_ids = << >>
    /\ filter = NoFilter
    /\ best_dev_metric = NegInf
    /\ iter = 0
    /\ averaged_grad = << >>
    /\ token_to_flip = 0
    /\ candidates = << >>
    /\ current_score = 0
    /\ candidate_scores = << >>
    /\ result_file = << >>

Next ==
    \/ ConstructTemplate
    \/ BuildTemplatizer
    \/ InitTrigger
    \/ MakeFilter
    \/ InitialEvaluate
    \/ LoopHead
    \/ AccumulateGradient
    \/ SelectCandidates
    \/ EvaluateCandidates
    \/ UpdateTrigger
    \/ EvaluateDev
    \/ Finish

Spec == Init /\ [][Next]_vars

----------------------------------------------------------------------------
(* Properties of the search loop, checked under Spec.                      *)

\* The positions of run_model inside the search loop and after it.
InSearch ==
    pc \in { "loop_head", "accumulate", "select", "evaluate", "update",
             "dev_eval", "finish", "done" }

\* C1: with print_lama off, an iteration changes trigger_ids if and only if
\* some candidate's accumulated score is strictly greater than the current
\* trigger's; the token then written at token_to_flip is a candidate of
\* maximal score; and an iteration that leaves trigger_ids alone goes on to
\* the next iteration without the dev evaluation and without touching
\* best_trigger_ids or best_dev_metric.
C1_ChangeIffStrictlyBetter ==
    [][ (pc = "update" /\ ~args.print_lama) =>
          LET better == \E j \in DOMAIN candidate_scores :
                            candidate_scores[j] > current_score
          IN  /\ (trigger_ids' # trigger_ids) <=> better
              /\ better =>
                    \E j \in DOMAIN candidate_scores :
                       /\ trigger_ids'[token_to_flip + 1] = candidates[j]
                       /\ \A k \in DOMAIN candidate_scores :
                             candidate_scores[k] <= candidate_scores[j]
              /\ better => pc' = "dev_eval"
              /\ ~better =>
                    /\ pc' = "loop_head"
                    /\ iter' = iter + 1
                    /\ UNCHANGED << best_trigger_ids, best_dev_metric >>
      ]_vars

\* An iteration with print_lama off has replaced a token of the trigger and
\* is about to evaluate it on the dev set.
C1_Witness ==
    /\ pc = "dev_eval"
    /\ ~args.print_lama
    /\ args.initial_trigger # << >>
    /\ trigger_ids # convert_tokens_to_ids(args.initial_trigger, args.model_name)

\* C2: no step of the search loop changes trigger_ids at a position other
\* than token_to_flip, and trigger_ids keeps args.num_trigger_tokens entries.
C2_OnePositionPerIteration ==
    [][ InSearch =>
          /\ Len(trigger_ids') = args.num_trigger_tokens
          /\ DOMAIN trigger_ids' = DOMAIN trigger_ids
          /\ \A p \in DOMAIN trigger_ids :
                p # token_to_flip + 1 => trigger_ids'[p] = trigger_ids[p]
      ]_vars

\* An iteration has replaced one token of a trigger of two tokens or more and
\* the dev evaluation has taken the new trigger as the best one.
C2_Witness ==
    /\ pc = "loop_head"
    /\ iter >= 1
    /\ Len(trigger_ids) >= 2
    /\ args.initial_trigger # << >>
    /\ trigger_ids # convert_tokens_to_ids(args.initial_trigger, args.model_name)
    /\ best_trigger_ids = trigger_ids

\* A token --filter is documented to keep out of triggers: a special token,
\* a gold-object token, or a token starting with a capital letter.
StartsWithCapital(idx, model_name) ==
    LET decoded == decode(idx, model_name)
        letters == IF decoded[1] = " " THEN Tail(decoded) ELSE decoded
    IN  letters # << >> /\ letters[1] \in UpperCase

Unwanted(idx, model_name) ==
    \/ idx \in all_special_ids(model_name)
    \/ idx \in label_ids(model_name)
    \/ StartsWithCapital(idx, model_name)

\* C3 (as claimed): with --filter, after any number of search iterations no
\* special token, label token or token starting with a capital letter is in
\* trigger_ids or best_trigger_ids.  Stated for the runs most favourable to
\* the claim, those whose initial trigger holds no such token, so that only
\* a token written by the search can break it.
C3_FilteredTokensNeverInTrigger ==
    ( /\ args.filter
      /\ pc \in { "loop_head", "finish", "done" }
      /\ args.initial_trigger # << >>
      /\ \A k \in DOMAIN args.initial_trigger :
            ~Unwanted(convert_tokens_to_ids(args.initial_trigger,
                                            args.model_name)[k],
                      args.model_name) ) =>
        /\ \A k \in DOMAIN trigger_ids : ~Unwanted(trigger_ids[k], args.model_name)
        /\ \A k \in DOMAIN best_trigger_ids :
              ~Unwanted(best_trigger_ids[k], args.model_name)

\* C4 (as claimed): for every args.template other than the empty string,
\* run_model gets past the construction of the template with
\* template = args.template.
C4_TemplateOptionIsUsed ==
    (pc # "construct_template" /\ args.template # "") =>
        /\ pc # "error"
        /\ template = args.template

\* C10 (as claimed): with print_lama and the all-mask initial trigger, the
\* tokens written to the LAMA output contain no mask token, whatever the
\* number of iterations, the positions drawn and the candidates.  Stated for
\* the runs with at least one iteration.
C10_NoMaskInLamaOutput ==
    ( /\ pc = "done"
      /\ args.print_lama
      /\ args.initial_trigger = << >>
      /\ args.iters >= 1 ) =>
        \A name \in DOMAIN result_file :
           \A n \in DOMAIN result_file[name] :
              \A k \in DOMAIN result_file[name][n].tokens :
                 result_file[name][n].tokens[k] #
                    get_vocab(args.model_name)[mask_token_id(args.model_name) + 1].word

----------------------------------------------------------------------------
(* hotflip_attack on its own: SpecHotflip calls it once on every input of  *)
(* the bounded sets below.                                                 *)

\* run_model is not running.
RunIdle ==
    /\ pc = "idle"
    /\ args = << >>
    /\ template = None
    /\ num_trigger_tokens = 0
    /\ trigger_ids = << >>
    /\ best_trigger_ids = << >>
    /\ filter = NoFilter
    /\ best_dev_metric = NegInf
    /\ iter = 0
    /\ averaged_grad = << >>
    /\ token_to_flip = 0
    /\ candidates = << >>
    /\ current_score = 0
    /\ candidate_scores = << >>
    /\ result_file = << >>

\* The embedding tables hotflip_attack is called on: the one of run_model
\* and a two-dimensional one.
EmbeddingMatrices ==
    { EmbeddingWeight,
      << << 1, 1 >>, << -1, 0 >>, << 0, -1 >>, << -1, -1 >>, << 1, -1 >> >> }

\* filter: None, or 0 or -1e32 per vocabulary id.
HotflipFilters(embedding_matrix) ==
    { NoFilter } \cup [ 1 .. Len(embedding_matrix) -> { 0, 0 - Huge } ]

InitHotflip ==
    /\ RunIdle
    /\ replace = Idle
    /\ predict = Idle
    /\ accuracy = Idle
    /\ embedding_gradient = Idle
    /\ batch = Idle
    /\ \E m \in EmbeddingMatrices :
          \E g \in GradRows(m), inc \in BOOLEAN, k \in 1 .. MaxCand,
             f \in HotflipFilters(m) :
             hotflip = [ pc |-> "call",
                         averaged_grad |-> g,
                         embedding_matrix |-> m,
                         increase_loss |-> inc,
                         num_candidates |-> k,
                         filter |-> f,
                         top_k_ids |-> << >> ]

\* Lines 195-212.  The in-place operations act on the product
\* gradient_dot_embedding_matrix, a tensor of its own: the arguments keep
\* their values.
HotflipAttack ==
    /\ hotflip.pc = "call"
    /\ \E top_k_ids \in hotflip_attack(hotflip.averaged_grad,
                                       hotflip.embedding_matrix,
                                       hotflip.increase_loss,
                                       hotflip.num_candidates,
                                       hotflip.filter) :
          hotflip' = [ hotflip EXCEPT !.pc = "return", !.top_k_ids = top_k_ids ]
    /\ UNCHANGED << runVars, replace, predict, accuracy, embedding_gradient,
                    batch >>

NextHotflip == HotflipAttack

SpecHotflip == InitHotflip /\ [][NextHotflip]_vars

\* The preference hotflip_attack is to rank vocabulary id v by: the dot
\* product of its embedding with the gradient, small first unless
\* increase_loss.
Preference(call, v) ==
    LET dot == SumSeq([ d \in DOMAIN call.averaged_grad |->
                          call.embedding_matrix[v + 1][d] * call.averaged_grad[d] ])
    IN  IF call.increase_loss THEN dot ELSE 0 - dot

\* C5: a call of hotflip_attack leaves averaged_grad, embedding_matrix and
\* filter as they were; without a filter it returns num_candidates distinct
\* vocabulary ids, most preferred first, and no id it leaves out is preferred
\* to one it returns: the ids of smallest dot product when increase_loss is
\* False, of largest dot product when it is True.
C5_TopCandidates ==
    [][ (hotflip.pc = "call" /\ hotflip'.pc = "return") =>
          LET r == hotflip'.top_k_ids
              ids == 0 .. (Len(hotflip.embedding_matrix) - 1)
          IN  /\ hotflip'.averaged_grad = hotflip.averaged_grad
              /\ hotflip'.embedding_matrix = hotflip.embedding_matrix
              /\ hotflip'.filter = hotflip.filter
              /\ hotflip.filter = NoFilter =>
                    /\ Len(r) = hotflip.num_candidates
                    /\ \A a \in DOMAIN r : r[a] \in ids
                    /\ \A a, b \in DOMAIN r :
                          a < b => /\ r[a] # r[b]
                                   /\ Preference(hotflip, r[a]) >= Preference(hotflip, r[b])
                    /\ \A v \in ids \ Range(r) :
                          \A a \in DOMAIN r :
                             Preference(hotflip, r[a]) >= Preference(hotflip, v)
      ]_vars

\* hotflip_attack has returned MaxCand candidates for a gradient that tells
\* the vocabulary ids apart, with no filter and increase_loss False.
C5_Witness ==
    /\ hotflip.pc = "return"
    /\ hotflip.filter = NoFilter
    /\ ~hotflip.increase_loss
    /\ Len(hotflip.top_k_ids) = MaxCand
    /\ \E v \in 0 .. (Len(hotflip.embedding_matrix) - 1) :
          v \notin Range(hotflip.top_k_ids)
          /\ Preference(hotflip, v) < Preference(hotflip, hotflip.top_k_ids[MaxCand])

\* C6 (as claimed): for both values of increase_loss, when at least
\* num_candidates vocabulary ids have filter value 0, hotflip_attack returns
\* no id whose filter value is -1e32.
C6_FilteredNeverReturned ==
    ( /\ hotflip.pc = "return"
      /\ hotflip.filter # NoFilter
      /\ Cardinality({ v \in DOMAIN hotflip.filter : hotflip.filter[v] = 0 })
            >= hotflip.num_candidates ) =>
        \A a \in DOMAIN hotflip.top_k_ids :
           hotflip.filter[hotflip.top_k_ids[a] + 1] # 0 - Huge

----------------------------------------------------------------------------
(* replace_trigger_tokens.  A tensor of shape (bsz, seq_len) is a sequence *)
(* of rows.                                                                *)

\* The flat index of entry (r, c) in row-major order.
FlatIndex(tensor, r, c) == (r - 1) * Len(tensor[1]) + c

\* The number of true entries of a mask at or before (r, c), row-major.
TrueRank(mask, r, c) ==
    Cardinality({ q \in (DOMAIN mask) \X (DOMAIN mask[1]) :
                    /\ mask[q[1]][q[2]]
                    /\ FlatIndex(mask, q[1], q[2]) <= FlatIndex(mask, r, c) })

TrueCount(mask) ==
    Cardinality({ q \in (DOMAIN mask) \X (DOMAIN mask[1]) : mask[q[1]][q[2]] })

\* Entry k of a tensor in row-major order.
FlatEntry(tensor, k) ==
    tensor[((k - 1) \div Len(tensor[1])) + 1][((k - 1) % Len(tensor[1])) + 1]

\* A source that is the trigger row alone.
NoRepeat(ids, bsz) == << ids >>

\* trigger_ids.repeat(trigger_mask.size(0), 1)
repeat(ids, bsz) == [ r \in 1 .. bsz |-> ids ]

\* Tensor.masked_scatter(mask, source) raises RuntimeError when source has
\* fewer entries than mask has true positions.
masked_scatter_raises(mask, source) ==
    TrueCount(mask) > Len(source) * Len(source[1])

\* Tensor.masked_scatter(mask, source): the true positions of mask take the
\* entries of source one after the other, both in row-major order.
masked_scatter(input, mask, source) ==
    [ r \in DOMAIN input |->
        [ c \in DOMAIN input[r] |->
            IF mask[r][c] THEN FlatEntry(source, TrueRank(mask, r, c))
                          ELSE input[r][c] ] ]

\* Lines 218-223: the tensor `filled`.
Filled(input_ids, ids, trigger_mask) ==
    LET source == repeat(ids, Len(trigger_mask))
    IN  IF masked_scatter_raises(trigger_mask, source)
        THEN input_ids
        ELSE masked_scatter(input_ids, trigger_mask, source)

\* Lines 215-225 on the values: the dict returned.
replace_trigger_tokens(model_inputs, ids, trigger_mask) ==
    [ model_inputs EXCEPT
        !.input_ids = Filled(model_inputs.input_ids, ids, trigger_mask) ]

\* The input_ids of a batch: every entry a token id of its own, from 10 up,
\* apart from the trigger ids.
InputIds(bsz) == [ r \in 1 .. bsz |-> [ c \in 1 .. MaxSeqLen |-> 10 * r + c ] ]

Masks(bsz) == [ 1 .. bsz -> [ 1 .. MaxSeqLen -> BOOLEAN ] ]

\* The rows trigger_ids can be: one to MaxTriggerTokens ids of two tokens.
TriggerRows == UNION { [ 1 .. n -> 1 .. 2 ] : n \in 1 .. MaxTriggerTokens }

InitReplace ==
    /\ RunIdle
    /\ hotflip = Idle
    /\ predict = Idle
    /\ accuracy = Idle
    /\ embedding_gradient = Idle
    /\ batch = Idle
    /\ \E bsz \in 1 .. MaxBatch :
          \E mask \in Masks(bsz), ids \in TriggerRows :
             replace = [ pc |-> "call",
                         model_inputs |-> [ input_ids |-> InputIds(bsz),
                                            attention_mask |-> "ones" ],
                         trigger_ids |-> ids,
                         trigger_mask |-> mask,
                         out |-> << >> ]

ReplaceTriggerTokens ==
    /\ replace.pc = "call"
    /\ replace' = [ replace EXCEPT
                      !.pc = "return",
                      !.out = replace_trigger_tokens(replace.model_inputs,
                                                     replace.trigger_ids,
                                                     replace.trigger_mask) ]
    /\ UNCHANGED << runVars, hotflip, predict, accuracy, embedding_gradient,
                    batch >>

NextReplace == ReplaceTriggerTokens

SpecReplace == InitReplace /\ [][NextReplace]_vars

\* The number of true positions of row r of a mask at or before column c.
RowRank(mask, r, c) ==
    Cardinality({ q \in DOMAIN mask[r] : mask[r][q] /\ q <= c })

\* Every position where trigger_mask is false keeps its input_ids value.
UnmaskedKept(call) ==
    \A r \in DOMAIN call.trigger_mask :
       \A c \in DOMAIN call.trigger_mask[r] :
          ~call.trigger_mask[r][c] =>
              call.out.input_ids[r][c] = call.model_inputs.input_ids[r][c]

\* The j-th true position of every row holds trigger_ids[j].
RowsHoldTrigger(call) ==
    \A r \in DOMAIN call.trigger_mask :
       \A c \in DOMAIN call.trigger_mask[r] :
          call.trigger_mask[r][c] =>
              /\ RowRank(call.trigger_mask, r, c) <= Len(call.trigger_ids)
              /\ call.out.input_ids[r][c] =
                    call.trigger_ids[RowRank(call.trigger_mask, r, c)]

\* Every row of the mask has exactly len(trigger_ids) true positions.
UniformMask(call) ==
    \A r \in DOMAIN call.trigger_mask :
       RowRank(call.trigger_mask, r, MaxSeqLen) = Len(call.trigger_ids)

\* C7: for every trigger_mask, the j-th true position of every
\* row holds trigger_ids[j] in the result and every other position holds the
\* input_ids value.
C7_ReplacesForEveryMask ==
    replace.pc = "return" => RowsHoldTrigger(replace) /\ UnmaskedKept(replace)

\* What holds of every call: for every trigger_mask every position where it is false
\* holds the input_ids value, and for every trigger_mask whose rows all have
\* exactly len(trigger_ids) true positions the j-th true position of every
\* row holds trigger_ids[j].
C7_ReplacesForUniformMasks ==
    replace.pc = "return" =>
        /\ UnmaskedKept(replace)
        /\ UniformMask(replace) => RowsHoldTrigger(replace)

\* replace_trigger_tokens has filled a batch of two rows, each with two
\* trigger positions, with a trigger of two different tokens.
C7_Witness ==
    /\ replace.pc = "return"
    /\ Len(replace.trigger_mask) = 2
    /\ Len(replace.trigger_ids) = 2
    /\ replace.trigger_ids[1] # replace.trigger_ids[2]
    /\ UniformMask(replace)
    /\ replace.out.input_ids # replace.model_inputs.input_ids

----------------------------------------------------------------------------
(* PredictWrapper.__call__.  Dicts and tensors are objects: `dicts` and    *)
(* `tensors` hold them, a reference is an index.  A dict maps its keys to  *)
(* tensor references.                                                      *)

LM_TYPE(name_or_path) ==
    CASE name_or_path \in
            { "roberta-base", "roberta-large", "allenai/longformer-base-4096",
              "allenai/longformer-large-4096", "distilroberta-base",
              "bert-base-cased", "bert-large-cased", "distilbert-base-cased",
              "facebook/bart-base", "facebook/bart-large" } -> "masked"
      [] name_or_path \in
            { "t5-small", "t5-base", "t5-large", "google/t5-v1_1-base" } -> "seq2seq"
      [] name_or_path \in
            { "gpt2-medium", "gpt2-large", "gpt2-xl", "xlnet-base-cased",
              "xlnet-large-cased", "facebook/opt-350m", "facebook/opt-1.3b",
              "facebook/opt-6.7b", "facebook/opt-13b", "facebook/opt-30b",
              "facebook/opt-66b", "facebook/opt-iml-max-30b",
              "facebook/opt-iml-max-1.3b", "facebook/galactica-6.7b",
              "facebook/galactica-30b" } -> "causal"

\* 't5' in self._model.name_or_path, over the names of LM_TYPE
HasT5(name_or_path) ==
    name_or_path \in { "t5-small", "t5-base", "t5-large", "google/t5-v1_1-base" }

\* An assignment in place of dict.copy(): the same dict under another name.
dict_alias(dicts, d) == [ dicts |-> dicts, ref |-> d ]

\* dict.copy(): a new dict with the same keys and the same tensor references.
dict_copy(dicts, d) == [ dicts |-> Append(dicts, dicts[d]), ref |-> Len(dicts) + 1 ]

\* dict.pop(key): the dict loses the key.
dict_pop(dicts, d, key) ==
    [ dicts EXCEPT ![d] = [ k \in (DOMAIN dicts[d]) \ { key } |-> dicts[d][k] ] ]

\* dict[key] = tensor reference
dict_set(dicts, d, key, t) ==
    [ dicts EXCEPT ![d] = [ k \in (DOMAIN dicts[d]) \cup { key } |->
                              IF k = key THEN t ELSE dicts[d][k] ] ]

\* logits.masked_select(predict_mask.unsqueeze(-1)): the positions (row,
\* column) whose logits are selected, in row-major order.
SelectedPositions(mask) ==
    [ k \in 1 .. TrueCount(mask) |->
        CHOOSE q \in (DOMAIN mask) \X (DOMAIN mask[1]) :
            mask[q[1]][q[2]] /\ TrueRank(mask, q[1], q[2]) = k ]

\* .view(logits.size(0), -1): the selection cut into bsz rows of one length.
\* (A selection that does not divide into bsz rows raises RuntimeError; the
\* predict masks below select one position per row.)
ViewRows(selected, bsz) ==
    LET width == Len(selected) \div bsz
    IN  [ r \in 1 .. bsz |-> [ j \in 1 .. width |-> selected[(r - 1) * width + j] ] ]

\* The popped predict_mask whatever the model is.
AlwaysPredictMask(name_or_path, predict_mask, last_trigger_mask) == predict_mask

\* Lines 89-90: causal LMs predict at the last trigger token.
SelectPredictMask(name_or_path, predict_mask, last_trigger_mask) ==
    IF LM_TYPE(name_or_path) = "causal" THEN last_trigger_mask ELSE predict_mask

\* Lines 83-97 on the heap h = [dicts, tensors], called with the dict
\* reference model_inputs: the heap after the call and the positions whose
\* logits are returned.
PredictWrapperCall(h, model_inputs, ids, name_or_path) ==
    LET \* line 85
        c1 == dict_copy(h.dicts, model_inputs)
        local == c1.ref
        \* lines 86-88
        trigger_mask == c1.dicts[local]["trigger_mask"]
        predict_mask0 == c1.dicts[local]["predict_mask"]
        last_trigger_mask == c1.dicts[local]["last_trigger_mask"]
        popped == dict_pop(dict_pop(dict_pop(c1.dicts, local, "trigger_mask"),
                                    local, "predict_mask"),
                           local, "last_trigger_mask")
        \* lines 89-90
        predict_mask == SelectPredictMask(name_or_path, predict_mask0,
                                          last_trigger_mask)
        \* line 91: replace_trigger_tokens, lines 217-225
        c2 == dict_copy(popped, local)
        out == c2.ref
        input_ids == c2.dicts[out]["input_ids"]
        source == repeat(ids, Len(h.tensors[trigger_mask]))
        raises == masked_scatter_raises(h.tensors[trigger_mask], source)
        tensors1 == IF raises THEN h.tensors
                    ELSE Append(h.tensors,
                                masked_scatter(h.tensors[input_ids],
                                               h.tensors[trigger_mask], source))
        filled == IF raises THEN input_ids ELSE Len(tensors1)
        dicts1 == dict_set(c2.dicts, out, "input_ids", filled)
        \* lines 92-93
        dicts2 == IF HasT5(name_or_path)
                  THEN dict_set(dicts1, out, "labels", dicts1[out]["input_ids"])
                  ELSE dicts1
    IN  [ dicts |-> dicts2,
          tensors |-> tensors1,
          passed |-> out,
          predict_logits |->
              ViewRows(SelectedPositions(tensors1[predict_mask]),
                       Len(tensors1[predict_mask])) ]

\* The mask that is true in column c of every row.
ColumnMask(bsz, c) == [ r \in 1 .. bsz |-> [ q \in 1 .. MaxSeqLen |-> q = c ] ]

\* The model names PredictWrapper is called with: one per type of LM_TYPE.
PredictNames == { "bert-base-cased", "gpt2-medium", "t5-small" }

\* The caller's dict is dicts[1]; its tensors are tensors[1..4].
InitPredict ==
    /\ RunIdle
    /\ hotflip = Idle
    /\ replace = Idle
    /\ accuracy = Idle
    /\ embedding_gradient = Idle
    /\ batch = Idle
    /\ \E mask \in Masks(MaxBatch), ids \in TriggerRows, name \in PredictNames :
          predict = [ pc |-> "call",
                      dicts |-> << [ k \in { "input_ids", "trigger_mask",
                                             "predict_mask", "last_trigger_mask" } |->
                                       CASE k = "input_ids" -> 1
                                         [] k = "trigger_mask" -> 2
                                         [] k = "predict_mask" -> 3
                                         [] k = "last_trigger_mask" -> 4 ] >>,
                      tensors |-> << InputIds(MaxBatch), mask,
                                     ColumnMask(MaxBatch, MaxSeqLen),
                                     ColumnMask(MaxBatch, MaxSeqLen - 1) >>,
                      model_inputs |-> 1,
                      trigger_ids |-> ids,
                      name_or_path |-> name,
                      passed |-> 0,
                      predict_logits |-> << >> ]

PredictWrapper ==
    /\ predict.pc = "call"
    /\ LET r == PredictWrapperCall([ dicts |-> predict.dicts,
                                     tensors |-> predict.tensors ],
                                   predict.model_inputs, predict.trigger_ids,
                                   predict.name_or_path)
       IN  predict' = [ predict EXCEPT !.pc = "return",
                                       !.dicts = r.dicts,
                                       !.tensors = r.tensors,
                                       !.passed = r.passed,
                                       !.predict_logits = r.predict_logits ]
    /\ UNCHANGED << runVars, hotflip, replace, accuracy, embedding_gradient,
                    batch >>

NextPredict == PredictWrapper

SpecPredict == InitPredict /\ [][NextPredict]_vars

\* C8: a call of PredictWrapper leaves the caller's model_inputs as it was:
\* the dict keeps its keys, trigger_mask, predict_mask and last_trigger_mask
\* among them, every key refers to the tensor it referred to, and each of
\* these tensors, input_ids among them, holds the values it held.
C8_CallerInputsUntouched ==
    [][ (predict.pc = "call" /\ predict'.pc = "return") =>
          LET before == predict.dicts[predict.model_inputs]
              after == predict'.dicts[predict.model_inputs]
          IN  /\ { "input_ids", "trigger_mask", "predict_mask",
                   "last_trigger_mask" } \subseteq DOMAIN after
              /\ after = before
              /\ \A k \in DOMAIN before :
                    predict'.tensors[after[k]] = predict.tensors[before[k]]
      ]_vars

\* PredictWrapper has returned after handing the model a dict whose
\* input_ids hold the trigger and which has none of the three masks.
C8_Witness ==
    /\ predict.pc = "return"
    /\ predict.passed # predict.model_inputs
    /\ "trigger_mask" \notin DOMAIN predict.dicts[predict.passed]
    /\ predict.tensors[predict.dicts[predict.passed]["input_ids"]]
          # predict.tensors[predict.dicts[predict.model_inputs]["input_ids"]]

----------------------------------------------------------------------------
(* PredictWrapper.__call__ for every model name of LM_TYPE and for         *)
(* predict masks of one or more positions per example.                     *)

\* The keys of LM_TYPE, lines 27-56.
LM_NAMES ==
    { "roberta-base", "roberta-large", "allenai/longformer-base-4096",
      "allenai/longformer-large-4096", "distilroberta-base", "bert-base-cased",
      "bert-large-cased", "distilbert-base-cased", "gpt2-medium", "gpt2-large",
      "gpt2-xl", "xlnet-base-cased", "xlnet-large-cased", "facebook/bart-base",
      "facebook/bart-large", "t5-small", "t5-base", "t5-large",
      "google/t5-v1_1-base", "facebook/opt-350m", "facebook/opt-1.3b",
      "facebook/opt-6.7b", "facebook/opt-13b", "facebook/opt-30b",
      "facebook/opt-66b", "facebook/opt-iml-max-30b",
      "facebook/opt-iml-max-1.3b", "facebook/galactica-6.7b",
      "facebook/galactica-30b" }

\* The predict masks of a batch: the template puts the same number of [P]
\* positions, at least one, in every example.
PredictMasks(bsz) ==
    { mask \in Masks(bsz) :
        /\ RowRank(mask, 1, MaxSeqLen) >= 1
        /\ \A r \in 1 .. bsz :
              RowRank(mask, r, MaxSeqLen) = RowRank(mask, 1, MaxSeqLen) }

\* The caller's dict is dicts[1]; its tensors are tensors[1..4].  The
\* trigger is one token, in the first column.
InitPredictPosition ==
    /\ RunIdle
    /\ hotflip = Idle
    /\ replace = Idle
    /\ accuracy = Idle
    /\ embedding_gradient = Idle
    /\ batch = Idle
    /\ \E predict_mask \in PredictMasks(MaxBatch), last \in 1 .. MaxSeqLen,
          ids \in { << 1 >>, << 2 >> }, name \in LM_NAMES :
          predict = [ pc |-> "call",
                      dicts |-> << [ k \in { "input_ids", "trigger_mask",
                                             "predict_mask", "last_trigger_mask" } |->
                                       CASE k = "input_ids" -> 1
                                         [] k = "trigger_mask" -> 2
                                         [] k = "predict_mask" -> 3
                                         [] k = "last_trigger_mask" -> 4 ] >>,
                      tensors |-> << InputIds(MaxBatch), ColumnMask(MaxBatch, 1),
                                     predict_mask, ColumnMask(MaxBatch, last) >>,
                      model_inputs |-> 1,
                      trigger_ids |-> ids,
                      name_or_path |-> name,
                      passed |-> 0,
                      predict_logits |-> << >> ]

SpecPredictPosition == InitPredictPosition /\ [][NextPredict]_vars

\* The positions of row r where the mask is true, in column order.
RowPositions(mask, r) ==
    [ k \in 1 .. RowRank(mask, r, MaxSeqLen) |->
        << r, CHOOSE c \in 1 .. MaxSeqLen :
                 mask[r][c] /\ RowRank(mask, r, c) = k >> ]

\* The caller's mask under a key.
CallerMask(key) == predict.tensors[predict.dicts[predict.model_inputs][key]]

\* C14: for every model name LM_TYPE maps to 'causal' the returned logits
\* are those at the positions of last_trigger_mask, whatever predict_mask
\* is; for every model name mapped to 'masked' or 'seq2seq' they are those
\* at the positions of predict_mask; the result has one row per example of
\* the batch, holding that example's positions.
C14_PositionByModelType ==
    predict.pc = "return" =>
        LET type == LM_TYPE(predict.name_or_path)
            used == IF type = "causal" THEN CallerMask("last_trigger_mask")
                    ELSE CallerMask("predict_mask")
        IN  /\ type \in { "causal", "masked", "seq2seq" }
            /\ Len(predict.predict_logits) = Len(CallerMask("input_ids"))
            /\ \A r \in DOMAIN predict.predict_logits :
                  predict.predict_logits[r] = RowPositions(used, r)

\* A causal model has returned the logits of the last trigger position of
\* each example, for a batch whose predict_mask is true elsewhere.
C14_Witness ==
    /\ predict.pc = "return"
    /\ LM_TYPE(predict.name_or_path) = "causal"
    /\ CallerMask("predict_mask") # CallerMask("last_trigger_mask")
    /\ Len(predict.predict_logits) = MaxBatch
    /\ \A r \in DOMAIN predict.predict_logits :
          /\ predict.predict_logits[r] # << >>
          /\ predict.predict_logits[r] = RowPositions(CallerMask("last_trigger_mask"), r)
          /\ predict.predict_logits[r] # RowPositions(CallerMask("predict_mask"), r)

----------------------------------------------------------------------------
(* AccuracyFn.__call__ and get_loss.  A row of predict_logits is given by  *)
(* the probability mass its softmax puts on each token id, in whole units: *)
(* the logsumexp of the gathered log-probabilities is the logarithm of the *)
(* sum of the gathered masses, and the order of two sums is the order of   *)
(* their logarithms.                                                       *)

\* self._all_label_ids: the token ids of each label of the label map, in the
\* map's order.  The third label has two tokens.
_all_label_ids == << << 1 >>, << 2 >>, << 2, 3 >> >>

\* The token ids the labels use, and the padding id 0.
AccuracyIds == { 0 } \cup UNION { Range(_all_label_ids[l]) : l \in DOMAIN _all_label_ids }

\* Lines 229-233 for one row: gather the masses of the ids, remove the
\* padding (exp(logp - 1e32) is 0), sum, and return minus the total.
get_loss(row, ids) ==
    0 - SumSeq([ j \in DOMAIN ids |-> IF ids[j] = 0 THEN 0 ELSE row[ids[j]] ])

\* all_label_logp.lt(gold_logp.unsqueeze(-1)).sum(-1)
CountLt(all_label_logp, gold_logp) ==
    Cardinality({ l \in DOMAIN all_label_logp : all_label_logp[l] < gold_logp })

\* Line 131: all_label_logp.le(gold_logp.unsqueeze(-1)).sum(-1)
CountLe(all_label_logp, gold_logp) ==
    Cardinality({ l \in DOMAIN all_label_logp : all_label_logp[l] <= gold_logp })

\* Lines 116-134: correct.float() for each row of the batch.
AccuracyFn(predict_logits, gold_label_ids) ==
    [ r \in DOMAIN predict_logits |->
        LET gold_logp == get_loss(predict_logits[r], gold_label_ids[r])
            all_label_logp ==
                [ l \in DOMAIN _all_label_ids |->
                    get_loss(predict_logits[r], _all_label_ids[l]) ]
            ge_count == CountLe(all_label_logp, gold_logp)
        IN  IF ge_count <= 1 THEN 1 ELSE 0 ]

\* The rows of predict_logits: a mass for every id.
LogitRows ==
    { row \in [ AccuracyIds -> 1 .. MaxMass ] : row[0] = 1 }

\* The batch's gold_label_ids: each row is its label's ids, padded with 0
\* to the longest label of the batch.
PadLabels(gold) ==
    LET width == CHOOSE n \in 1 .. 2 :
                    /\ \A r \in DOMAIN gold : Len(_all_label_ids[gold[r]]) <= n
                    /\ \E r \in DOMAIN gold : Len(_all_label_ids[gold[r]]) = n
    IN  [ r \in DOMAIN gold |->
            [ j \in 1 .. width |->
                IF j <= Len(_all_label_ids[gold[r]])
                THEN _all_label_ids[gold[r]][j] ELSE 0 ] ]

InitAccuracy ==
    /\ RunIdle
    /\ hotflip = Idle
    /\ replace = Idle
    /\ predict = Idle
    /\ embedding_gradient = Idle
    /\ batch = Idle
    /\ \E bsz \in 1 .. MaxBatch :
         \E predict_logits \in [ 1 .. bsz -> LogitRows ],
            gold \in [ 1 .. bsz -> DOMAIN _all_label_ids ] :
              accuracy = [ pc |-> "call",
                           predict_logits |-> predict_logits,
                           gold |-> gold,
                           gold_label_ids |-> PadLabels(gold),
                           correct |-> << >> ]

Accuracy ==
    /\ accuracy.pc = "call"
    /\ accuracy' = [ accuracy EXCEPT
                       !.pc = "return",
                       !.correct = AccuracyFn(accuracy.predict_logits,
                                              accuracy.gold_label_ids) ]
    /\ UNCHANGED << runVars, hotflip, replace, predict, embedding_gradient,
                    batch >>

NextAccuracy == Accuracy

SpecAccuracy == InitAccuracy /\ [][NextAccuracy]_vars

\* The total probability of label l in a row: the sum over its tokens.
LabelMass(row, l) == SumSeq([ j \in DOMAIN _all_label_ids[l] |-> row[_all_label_ids[l][j]] ])

\* C9: an example is counted correct exactly when the total probability of
\* its gold label is strictly greater than that of every label of the label
\* map except at most one, and the one exception is the gold label itself;
\* an example whose gold label ties with a different label is counted
\* incorrect.
C9_CorrectIffStrictlyAboveOthers ==
    accuracy.pc = "return" =>
        \A r \in DOMAIN accuracy.correct :
            LET row == accuracy.predict_logits[r]
                g == accuracy.gold[r]
                labels == DOMAIN _all_label_ids
            IN  /\ accuracy.correct[r] = 1 <=>
                      \E except \in SUBSET labels :
                          /\ Cardinality(except) <= 1
                          /\ \A l \in labels \ except :
                                LabelMass(row, g) > LabelMass(row, l)
                /\ accuracy.correct[r] = 1 <=>
                      \A l \in labels \ { g } : LabelMass(row, g) > LabelMass(row, l)
                /\ (\E l \in labels \ { g } : LabelMass(row, l) = LabelMass(row, g))
                      => accuracy.correct[r] = 0

\* A batch has been scored in which one example, with a two-token gold
\* label, is counted correct and another, whose padded gold label ties with
\* a different label, is counted incorrect.
C9_Witness ==
    /\ accuracy.pc = "return"
    /\ \E r \in DOMAIN accuracy.correct :
          /\ accuracy.correct[r] = 1
          /\ Len(_all_label_ids[accuracy.gold[r]]) > 1
    /\ \E r \in DOMAIN accuracy.correct :
          /\ accuracy.correct[r] = 0
          /\ 0 \in Range(accuracy.gold_label_ids[r])
          /\ \E l \in (DOMAIN _all_label_ids) \ { accuracy.gold[r] } :
                LabelMass(accuracy.predict_logits[r], l)
                   = LabelMass(accuracy.predict_logits[r], accuracy.gold[r])

----------------------------------------------------------------------------
(* GradientStorage and the accumulation loop of run_model that reads it.   *)
(* The model and its backward pass are opaque: the gradient of the         *)
(* embedding output that a backward pass delivers to the hook is named by  *)
(* the iteration, the step (its batch of train_iter) and the trigger of    *)
(* the forward pass it differentiates, and by the hook invocation.         *)

\* A hook that keeps what is stored once something is.
HookKeepFirst(_stored_gradient, grad_out) ==
    IF _stored_gradient = << >> THEN << grad_out[1] >> ELSE _stored_gradient

\* Lines 68-69: self._stored_gradient = grad_out[0].  The storage is << >>
\* for None and << g >> for the gradient g.
hook(_stored_gradient, grad_out) == << grad_out[1] >>

\* Lines 71-72
get(_stored_gradient) == _stored_gradient

\* grad_out of the backward pass of the current step, at its next hook
\* invocation.
GradOut(e) ==
    << [ i |-> e.i, step |-> e.step, trigger_ids |-> e.trigger_ids,
         call |-> e.calls + 1 ] >>

\* Line 274, then the loop of line 393 about to start.  train_loader has
\* loader_len batches.
InitGradient ==
    /\ RunIdle
    /\ hotflip = Idle
    /\ replace = Idle
    /\ predict = Idle
    /\ accuracy = Idle
    /\ batch = Idle
    /\ \E loader_len \in 1 .. MaxSteps, ids \in 1 .. 2 :
          embedding_gradient = [ pc |-> "iter_head",
                                 _stored_gradient |-> << >>,
                                 i |-> 0,
                                 step |-> 0,
                                 trigger_ids |-> ids,
                                 loader_len |-> loader_len,
                                 calls |-> 0,
                                 grad |-> << >> ]

GradientFrame == UNCHANGED << runVars, hotflip, replace, predict, accuracy, batch >>

\* Lines 393-402: the next iteration, or the end of the loop.
GradIterHead ==
    /\ embedding_gradient.pc = "iter_head"
    /\ embedding_gradient' =
          IF embedding_gradient.i < MaxGradIters
          THEN [ embedding_gradient EXCEPT !.pc = "next_batch", !.step = 0 ]
          ELSE [ embedding_gradient EXCEPT !.pc = "done" ]
    /\ GradientFrame

\* Lines 405-417: the next step and its batch; the loop ends after
\* accumulation_steps steps or when train_iter is exhausted.
GradNextBatch ==
    /\ embedding_gradient.pc = "next_batch"
    /\ embedding_gradient' =
          IF /\ embedding_gradient.step < MaxSteps
             /\ embedding_gradient.step < embedding_gradient.loader_len
          THEN [ embedding_gradient EXCEPT !.pc = "backward" ]
          ELSE [ embedding_gradient EXCEPT !.pc = "evaluate" ]
    /\ GradientFrame

\* Lines 418-420: the forward pass with the current trigger, and
\* loss.backward() starting.
GradBackward ==
    /\ embedding_gradient.pc = "backward"
    /\ embedding_gradient' = [ embedding_gradient EXCEPT !.pc = "hooks", !.calls = 0 ]
    /\ GradientFrame

\* Lines 68-69, invoked by the backward pass each time it has the gradient of
\* an output of the embedding module (a module shared by an encoder and a
\* decoder has more than one).
GradHook ==
    /\ embedding_gradient.pc = "hooks"
    /\ embedding_gradient.calls < MaxHookCalls
    /\ embedding_gradient' =
          [ embedding_gradient EXCEPT
              !._stored_gradient = hook(embedding_gradient._stored_gradient,
                                        GradOut(embedding_gradient)),
              !.calls = embedding_gradient.calls + 1 ]
    /\ GradientFrame

\* Line 422, after loss.backward() has returned.
GradGet ==
    /\ embedding_gradient.pc = "hooks"
    /\ embedding_gradient.calls >= 1
    /\ embedding_gradient' =
          [ embedding_gradient EXCEPT
              !.pc = "accumulate",
              !.grad = get(embedding_gradient._stored_gradient) ]
    /\ GradientFrame

\* Lines 423-431
GradAccumulate ==
    /\ embedding_gradient.pc = "accumulate"
    /\ embedding_gradient' =
          [ embedding_gradient EXCEPT !.pc = "next_batch",
                                      !.step = embedding_gradient.step + 1 ]
    /\ GradientFrame

\* Lines 433-525: candidates and dev set are evaluated under torch.no_grad();
\* the trigger is changed or kept.
GradEvaluate ==
    /\ embedding_gradient.pc = "evaluate"
    /\ \E ids \in 1 .. 2 :
          embedding_gradient' =
              [ embedding_gradient EXCEPT !.pc = "iter_head",
                                          !.i = embedding_gradient.i + 1,
                                          !.trigger_ids = ids ]
    /\ GradientFrame

NextGradient ==
    \/ GradIterHead
    \/ GradNextBatch
    \/ GradBackward
    \/ GradHook
    \/ GradGet
    \/ GradAccumulate
    \/ GradEvaluate

SpecGradient == InitGradient /\ [][NextGradient]_vars

\* C11: get() returns None until the first backward pass delivers a
\* gradient, and the gradient read after each loss.backward() is the
\* grad_out[0] of the most recent hook invocation, which belongs to this
\* step's batch and the current trigger of this iteration.
C11_GradientOfThisStep ==
    /\ ( /\ embedding_gradient.pc \in { "iter_head", "next_batch", "backward", "hooks" }
         /\ embedding_gradient.i = 0
         /\ embedding_gradient.step = 0
         /\ embedding_gradient.calls = 0 )
          => get(embedding_gradient._stored_gradient) = << >>
    /\ embedding_gradient.pc = "accumulate" =>
          embedding_gradient.grad =
              << [ i |-> embedding_gradient.i,
                   step |-> embedding_gradient.step,
                   trigger_ids |-> embedding_gradient.trigger_ids,
                   call |-> embedding_gradient.calls ] >>

\* In a later iteration, after the trigger has changed, the second step has
\* read its gradient, and the hook was invoked twice during its backward
\* pass.
C11_Witness ==
    /\ embedding_gradient.pc = "accumulate"
    /\ embedding_gradient.i >= 1
    /\ embedding_gradient.step >= 1
    /\ embedding_gradient.calls >= 2
    /\ embedding_gradient.grad # << >>
    /\ embedding_gradient.grad[1].trigger_ids = 2
    /\ embedding_gradient.grad[1].i = embedding_gradient.i

----------------------------------------------------------------------------
(* make_batch of utils.py.  A sample is given by the token ids of its      *)
(* subject and of its object, as tokenizer.tokenize and                    *)
(* convert_tokens_to_ids return them.                                      *)

\* The special tokens make_batch is called with, each a list of one id.
cls_token == << 101 >>
sep_token == << 102 >>
mask_token == << 103 >>
pad_token == << 0 >>
period_token == << 119 >>

\* [v] * n
Times(v, n) == [ j \in 1 .. n |-> v ]

\* int(part) for the numeric parts of a prompt format
int(part) ==
    CASE part = "0" -> 0
      [] part = "1" -> 1
      [] part = "2" -> 2
      [] part = "3" -> 3

\* list[lo:hi] of Python, 0-based and clipped to the list
Slice(list, lo, hi) ==
    IF lo >= Len(list) THEN << >>
    ELSE SubSeq(list, lo + 1, IF hi < Len(list) THEN hi ELSE Len(list))

\* Lines 188-206: the loop over the parts of prompt_format from part k on;
\* s holds source_tokens, target_tokens, trigger_mask and trigger_idx.
RECURSIVE PromptParts(_, _, _, _, _)
PromptParts(s, sample, trigger_tokens, prompt_format, k) ==
    IF k > Len(prompt_format) THEN s
    ELSE LET part == prompt_format[k]
             next ==
                 IF part = "X"
                 THEN [ s EXCEPT
                          !.source_tokens = @ \o sample.sub_tokens,
                          !.target_tokens = @ \o Times(-1, Len(sample.sub_tokens)),
                          !.trigger_mask = @ \o Times(0, Len(sample.sub_tokens)) ]
                 ELSE IF part = "Y"
                 THEN [ s EXCEPT
                          !.source_tokens = @ \o mask_token,
                          !.target_tokens = @ \o sample.obj_tokens,
                          !.trigger_mask = @ \o Times(0, Len(sample.obj_tokens)) ]
                 ELSE LET count == int(part)
                      IN  [ s EXCEPT
                              !.source_tokens =
                                  @ \o Slice(trigger_tokens, s.trigger_idx,
                                             s.trigger_idx + count),
                              !.target_tokens = @ \o Times(-1, count),
                              !.trigger_mask = @ \o Times(1, count),
                              !.trigger_idx = @ + count ]
         IN  PromptParts(next, sample, trigger_tokens, prompt_format, k + 1)

\* Lines 156-221 for one sample when use_ctx is false.
EncodeSample(sample, trigger_tokens, prompt_format) ==
    LET start == [ source_tokens |-> cls_token,
                   target_tokens |-> << -1 >>,
                   trigger_mask |-> << 0 >>,
                   trigger_idx |-> 0 ]
        body == PromptParts(start, sample, trigger_tokens, prompt_format, 1)
        source_tokens == body.source_tokens \o period_token \o sep_token
    IN  [ source_tokens |-> source_tokens,
          target_tokens |-> body.target_tokens \o << -1, -1 >>,
          trigger_mask |-> body.trigger_mask \o << 0, 0 >>,
          segment_ids |-> Times(0, Len(source_tokens)) ]

\* torch.nn.utils.rnn.pad_sequence(sequences, batch_first=True, padding_value)
pad_sequence(sequences, padding_value) ==
    LET max_len == CHOOSE n \in { Len(sequences[r]) : r \in DOMAIN sequences } :
                      \A r \in DOMAIN sequences : Len(sequences[r]) <= n
    IN  [ r \in DOMAIN sequences |->
            [ c \in 1 .. max_len |->
                IF c <= Len(sequences[r]) THEN sequences[r][c] ELSE padding_value ] ]

\* Lines 145-245.  With use_ctx the first sample reaches line 178, where the
\* name context_tokens is bound nowhere (line 160 unpacks no context), and
\* the call raises NameError.
make_batch(samples, trigger_tokens, prompt_format, use_ctx) ==
    IF use_ctx /\ samples # << >>
    THEN [ raised |-> "NameError" ]
    ELSE LET encoded == [ r \in DOMAIN samples |->
                            EncodeSample(samples[r], trigger_tokens, prompt_format) ]
         IN  [ raised |-> None,
               encoded |-> encoded,
               source_tokens_batch |->
                   pad_sequence([ r \in DOMAIN encoded |-> encoded[r].source_tokens ],
                                pad_token[1]),
               target_tokens_batch |->
                   pad_sequence([ r \in DOMAIN encoded |-> encoded[r].target_tokens ], -1),
               trigger_mask_batch |->
                   pad_sequence([ r \in DOMAIN encoded |-> encoded[r].trigger_mask ], 0),
               segment_ids_batch |->
                   pad_sequence([ r \in DOMAIN encoded |-> encoded[r].segment_ids ],
                                pad_token[1]) ]

\* The samples: a subject and an object of one or two tokens each.
Samples ==
    [ sub_tokens : { << 20 >>, << 20, 21 >> }, obj_tokens : { << 30 >>, << 30, 31 >> } ]

\* The prompt formats, and the number of trigger tokens each asks for.
PromptFormats ==
    { << "X", "1", "Y" >>, << "X", "2", "Y" >>, << "1", "X", "1", "Y" >> }

RECURSIVE NumericSum(_, _)
NumericSum(prompt_format, k) ==
    IF k > Len(prompt_format) THEN 0
    ELSE (IF prompt_format[k] \in { "X", "Y" } THEN 0 ELSE int(prompt_format[k]))
            + NumericSum(prompt_format, k + 1)

\* The caller passes as many trigger tokens as the prompt format asks for.
InitBatch ==
    /\ RunIdle
    /\ hotflip = Idle
    /\ replace = Idle
    /\ predict = Idle
    /\ accuracy = Idle
    /\ embedding_gradient = Idle
    /\ \E bsz \in 1 .. MaxBatch :
         \E samples \in [ 1 .. bsz -> Samples ], prompt_format \in PromptFormats,
            use_ctx \in BOOLEAN :
              batch = [ pc |-> "call",
                        batch |-> samples,
                        trigger_tokens |-> [ j \in 1 .. NumericSum(prompt_format, 1) |-> j ],
                        prompt_format |-> prompt_format,
                        use_ctx |-> use_ctx,
                        result |-> << >> ]

MakeBatch ==
    /\ batch.pc = "call"
    /\ batch' = [ batch EXCEPT
                    !.pc = "return",
                    !.result = make_batch(batch.batch, batch.trigger_tokens,
                                          batch.prompt_format, batch.use_ctx) ]
    /\ UNCHANGED << runVars, hotflip, replace, predict, accuracy, embedding_gradient >>

NextBatch == MakeBatch

SpecBatch == InitBatch /\ [][NextBatch]_vars

\* The four sequences of one sample are aligned.
Aligned(e, call) ==
    /\ Len(e.target_tokens) = Len(e.source_tokens)
    /\ Len(e.trigger_mask) = Len(e.source_tokens)
    /\ Len(e.segment_ids) = Len(e.source_tokens)
    /\ \A c \in DOMAIN e.source_tokens :
          /\ e.trigger_mask[c] = 1 <=> e.source_tokens[c] \in Range(call.trigger_tokens)
          /\ e.target_tokens[c] # -1 => e.source_tokens[c] = mask_token[1]
    /\ Cardinality({ c \in DOMAIN e.trigger_mask : e.trigger_mask[c] = 1 })
          = NumericSum(call.prompt_format, 1)

\* C12: for every sample, every prompt format and both values of use_ctx,
\* make_batch returns, and source_tokens, target_tokens, trigger_mask and
\* segment_ids of the sample have one length, trigger_mask is 1 exactly at
\* the positions holding trigger tokens, as many as the numeric parts of
\* prompt_format sum to, and target_tokens is -1 everywhere except at the
\* masked-object positions.
C12_AlignedSequences ==
    batch.pc = "return" =>
        /\ batch.result.raised = None
        /\ \A r \in DOMAIN batch.result.encoded :
              Aligned(batch.result.encoded[r], batch)

----------------------------------------------------------------------------
(* The end of run_model, lines 527-574, on its own: the search has left    *)
(* best_trigger_ids, and the output directory holds the files of earlier   *)
(* runs.                                                                   *)

\* The command lines of the runs that save: the options lines 527-574 read
\* vary, the others are those of a run with the default template.
SaveArgs ==
    { a \in [ template : { "" },
              num_trigger_tokens : 1 .. MaxTriggerTokens,
              initial_trigger : { << >> },
              filter : { FALSE },
              print_lama : BOOLEAN,
              iters : { 0 },
              num_cand : { 1 },
              fast_tokenizer : { 0 },
              model_name : { "bert-base-cased", "facebook/opt-350m" },
              output : { "out" },
              seed : 0 .. 1 ] : TRUE }

\* A line an earlier run has written.
EarlierLine ==
    [ relation |-> "P19",
      template |-> << "[", "X", "]", " ", "t", "h", "e", " ", "[", "Y", "]", "." >>,
      tokens |-> << << "t", "h", "e" >> >> ]

\* The output directory before the run: some of the files the runs write
\* exist, with one line each.
EarlierFiles ==
    UNION { [ names -> { << EarlierLine >> } ] :
              names \in SUBSET { result_file_name(a) : a \in SaveArgs } }

InitSave ==
    /\ CallsIdle
    /\ pc = "finish"
    /\ args \in SaveArgs
    /\ template = DefaultTemplate(args)
    /\ num_trigger_tokens = args.num_trigger_tokens
    /\ best_trigger_ids \in [ 1 .. args.num_trigger_tokens -> VocabIds(args.model_name) ]
    /\ trigger_ids = best_trigger_ids
    /\ filter = NoFilter
    /\ best_dev_metric \in Scores
    /\ iter = 0
    /\ averaged_grad = << >>
    /\ token_to_flip = 0
    /\ candidates = << >>
    /\ current_score = 0
    /\ candidate_scores = << >>
    /\ result_file \in EarlierFiles

NextSave == Finish

SpecSave == InitSave /\ [][NextSave]_vars

\* C13: with print_lama the run appends exactly one line, with the keys
\* relation, template and tokens, the tokens being those of
\* best_trigger_ids, to <output>/<model-name-suffix>_autoprompt_seed_<seed>.jsonl;
\* the lines that file held and every other file stay as they were; without
\* print_lama no file is written.
C13_SaveOnlyAppends ==
    [][ LET name == args.output \o "/" \o name_suffix(args.model_name)
                       \o "_autoprompt_seed_" \o ToString(args.seed) \o ".jsonl"
            before == IF name \in DOMAIN result_file THEN result_file[name] ELSE << >>
        IN  IF pc = "finish" /\ pc' = "done" /\ args.print_lama
            THEN /\ DOMAIN result_file' = (DOMAIN result_file) \cup { name }
                 /\ \A n \in DOMAIN result_file : n # name => result_file'[n] = result_file[n]
                 /\ Len(result_file'[name]) = Len(before) + 1
                 /\ SubSeq(result_file'[name], 1, Len(before)) = before
                 /\ LET line == result_file'[name][Len(before) + 1]
                    IN  /\ DOMAIN line = { "relation", "template", "tokens" }
                        /\ line.tokens =
                              [ k \in DOMAIN best_trigger_ids |->
                                  get_vocab(args.model_name)[best_trigger_ids[k] + 1].word ]
            ELSE result_file' = result_file
      ]_vars

\* A run with print_lama for facebook/opt-350m and seed 1 has added its line
\* after the line an earlier run left in out/opt-350m_autoprompt_seed_1.jsonl,
\* next to another file of an earlier run.
C13_Witness ==
    /\ pc = "done"
    /\ args.print_lama
    /\ args.model_name = "facebook/opt-350m"
    /\ args.seed = 1
    /\ "out/opt-350m_autoprompt_seed_1.jsonl" \in DOMAIN result_file
    /\ Len(result_file["out/opt-350m_autoprompt_seed_1.jsonl"]) = 2
    /\ result_file["out/opt-350m_autoprompt_seed_1.jsonl"][1] = EarlierLine
    /\ result_file["out/opt-350m_autoprompt_seed_1.jsonl"][2].tokens
          = convert_ids_to_tokens(best_trigger_ids, args.model_name)
    /\ "out/bert-base-cased_autoprompt_seed_0.jsonl" \in DOMAIN result_file

====
